---- MODULE Spec2Model ----
(***************************************************************************)
(* The Fetch Controller of src/App.tsx: the React state of App, the        *)
(* fetchPosts sessions suspended at their awaits, the AbortController ref  *)
(* and the header operations that change the Query.  The server-side proxy *)
(* handlers (src/server.js, src/unnamed/part_002, src/types.ts) are a      *)
(* second machine, with a specification of its own; the AI-assisted modals *)
(* a post card opens (YouTubeModal, SeoQuestionModal) are a third.         *)
(*                                                                         *)
(* Strings the code manipulates (subreddit, search query, URLs, messages)  *)
(* are sequences of tokens, so that trim / replace / split / test act on   *)
(* them as the code does.  The empty sequence is the empty (falsy) string. *)
(***************************************************************************)
EXTENDS Naturals, Sequences, FiniteSets, TLC

VARIABLES
    posts,              \* useState<RedditPost[]>            App.tsx:57
    loading,            \* useState<boolean>                 App.tsx:58
    error,              \* useState<string | null>           App.tsx:59
    subreddit,          \* useState<string>                  App.tsx:60
    sort,               \* useState<string>                  App.tsx:61
    activeSearchQuery,  \* useState<string>                  App.tsx:62
    activePostUrl,      \* useState<string>                  App.tsx:63
    abortControllerRef, \* index of the current session, 0 = null   App.tsx:64
    sessions,           \* the fetchPosts invocations not yet dropped, by slot
    requests,           \* upstream requests issued since the last user operation
    mounted,            \* FALSE once the component is unmounted
    proxy,              \* the proxy's handling of one incoming request
    modal               \* the AI-assisted modal a post card has opened

appvars == <<posts, loading, error, subreddit, sort, activeSearchQuery,
             activePostUrl, abortControllerRef, sessions, requests, mounted>>

vars == <<appvars, proxy, modal>>

ui == <<posts, loading, error>>
query == <<subreddit, sort, activeSearchQuery, activePostUrl>>

-----------------------------------------------------------------------------
(* Bounds of the model *)

\* fetchPosts invocations the model keeps at a time
MaxLive == 3
\* posts of the large engagement page the upstream may deliver
BigPageSize == 30

-----------------------------------------------------------------------------
(* Constants of the program *)

targetCount == 50
minScore == 1500
minComments == 50
maxPagesToFetch == 5

BROWSE_SORTS == {"hot", "new", "top", "engagement", "videos"}
SEARCH_SORTS == {"relevance", "hot", "top", "new", "comments", "engagement", "videos"}

\* SUBREDDIT_GROUPS[0].channels[0]
InitialSubreddit == <<"newsokur">>

Null == <<>>

-----------------------------------------------------------------------------
(* String helpers *)

RECURSIVE DropLeading(_, _)
DropLeading(s, tok) ==
    IF s # <<>> /\ Head(s) = tok THEN DropLeading(Tail(s), tok) ELSE s

RECURSIVE DropTrailing(_, _)
DropTrailing(s, tok) ==
    IF s # <<>> /\ s[Len(s)] = tok
    THEN DropTrailing(SubSeq(s, 1, Len(s) - 1), tok) ELSE s

\* String.prototype.trim
Trim(s) == DropTrailing(DropLeading(s, " "), " ")

\* s.replace(/^r\//, '')
StripRPrefix(s) == IF s # <<>> /\ Head(s) = "r/" THEN Tail(s) ELSE s

\* s.split('?')[0]
RECURSIVE BeforeQuestionMark(_)
BeforeQuestionMark(s) ==
    IF s = <<>> \/ Head(s) = "?" THEN <<>>
    ELSE <<Head(s)>> \o BeforeQuestionMark(Tail(s))

\* s.replace(/\/$/, '')
StripTrailingSlash(s) ==
    IF s # <<>> /\ s[Len(s)] = "/" THEN SubSeq(s, 1, Len(s) - 1) ELSE s

\* a pattern that accepts any non-empty text
IsRedditPostUrl_anyText(url) == Len(url) > 0

\* /reddit\.com\/r\//.test(url)
IsRedditPostUrl(url) == \E i \in 1..Len(url) : url[i] = "reddit.com/r/"

\* encodeURIComponent, on the characters the model's queries contain
RECURSIVE EncodeURIComponent(_)
EncodeURIComponent(s) ==
    IF s = <<>> THEN <<>>
    ELSE <<CASE Head(s) = " " -> "%20"
             [] Head(s) = ":" -> "%3A"
             [] OTHER -> Head(s)>> \o EncodeURIComponent(Tail(s))

\* Number -> string, for the numbers that reach a message
NumStr(n) ==
    CASE n = 1 -> "1" [] n = 2 -> "2" [] n = 3 -> "3" [] n = 4 -> "4"
      [] n = 5 -> "5" [] n = 6 -> "6"
      [] n = 200 -> "200" [] n = 404 -> "404" [] n = 500 -> "500"
      [] OTHER -> "?"

-----------------------------------------------------------------------------
(* User-facing messages *)

MsgInvalidUrl == <<"This doesn't look like a valid Reddit post URL.">>
MsgUrlStatus ==
    <<"Could not fetch the post from the URL. Please check if it's a valid and public Reddit post URL.">>
MsgInvalidJson ==
    <<"Received an invalid response from Reddit. The API might be temporarily unavailable or blocking requests.">>
MsgNotAPost == <<"The provided URL does not point to a valid Reddit post.">>
MsgUnexpectedFormat == <<"Received an unexpected data format from Reddit.">>
MsgUnknown == <<"An unknown error occurred.">>
MsgNotFound(sub) == <<"Subreddit 'r/">> \o sub \o <<"' not found or is private.">>
MsgPageStatus(page, statusText) ==
    <<"Failed to fetch from Reddit (page ", NumStr(page), "): ", statusText>>
MsgStatus(statusText, status) ==
    <<"Failed to fetch from Reddit: ", statusText, " (", NumStr(status), ")">>

-----------------------------------------------------------------------------
(* Thrown values *)

NewError(msg) == [isError |-> TRUE, name |-> "Error", message |-> msg]
\* what fetch / text() / json() reject with once the signal is aborted
AbortError ==
    [isError |-> TRUE, name |-> "AbortError", message |-> <<"The user aborted a request.">>]
\* what fetch / text() / json() reject with on a transport failure
NetworkError ==
    [isError |-> TRUE, name |-> "TypeError", message |-> <<"Failed to fetch">>]
\* what response.json() rejects with on a body that is not JSON
JsonSyntaxError ==
    [isError |-> TRUE, name |-> "SyntaxError",
     message |-> <<"Unexpected token < in JSON at position 0">>]
\* children.map(...) on a children value that is no array
NotAFunctionError ==
    [isError |-> TRUE, name |-> "TypeError",
     message |-> <<"data.data.children.map is not a function">>]

-----------------------------------------------------------------------------
(* What the upstream may answer *)

Statuses == {200, 404, 500}
ResponseOk(status) == status >= 200 /\ status <= 299
StatusText(status) ==
    CASE status = 200 -> "OK"
      [] status = 404 -> "Not Found"
      [] status = 500 -> "Internal Server Error"
      [] OTHER -> ""

Post(id, sub, isVideo, score, comments) ==
    [id |-> id, subreddit |-> sub, is_video |-> isVideo,
     score |-> score, num_comments |-> comments]

\* the post a permalink lookup delivers
UrlPost == Post(7, <<"aww">>, TRUE, 2000, 80)

\* a plain listing / search result
ListingPosts ==
    << Post(11, <<"aww">>, TRUE, 900, 12), Post(12, <<"aww">>, FALSE, 4000, 300) >>

\* page n of the "top" listing, few posts: one qualifies, the others miss
\* one criterion each (no video; score at the threshold; comments at it)
PageMixed(n) ==
    << Post(n * 100 + 1, <<"aww">>, FALSE, 9000, 900),
       Post(n * 100 + 2, <<"aww">>, TRUE, minScore + 500, minComments + 20),
       Post(n * 100 + 3, <<"aww">>, TRUE, minScore, minComments + 20),
       Post(n * 100 + 4, <<"aww">>, TRUE, minScore + 500, minComments) >>

\* page n of the "top" listing, BigPageSize qualifying posts
PageBig(n) ==
    [i \in 1..BigPageSize |->
        Post(n * 100 + 10 + i, <<"aww">>, TRUE, minScore + 1000 - i, minComments + 1)]

\* Parsed bodies.  t names the shape:
\*   "notjson"     the text is no JSON
\*   "nodata"      JSON without data.children ({} , null, {data: {}})
\*   "badchildren" data.children is present and truthy but no array
\*   "listing"     {data: {children: [{data: post}...], after}}
\*   "array"       [ {data: {children: [{data: post}...]}}, ... ]
Doc(t, children, after) == [t |-> t, children |-> children, after |-> after]

Cursor(n) == <<"t3_page", NumStr(n + 1)>>

\* the bodies the upstream may deliver to request number n of a session
Bodies(n) ==
    { Doc("notjson", <<>>, Null), Doc("nodata", <<>>, Null),
      Doc("badchildren", <<>>, Null),
      Doc("array", <<UrlPost>>, Null), Doc("array", <<>>, Null),
      Doc("listing", <<>>, Null), Doc("listing", ListingPosts, Null),
      Doc("listing", PageMixed(n), Null), Doc("listing", PageMixed(n), Cursor(n)),
      Doc("listing", PageBig(n), Null), Doc("listing", PageBig(n), Cursor(n)) }

\* JSON.parse(responseText) threw
ParseFails(d) == d.t = "notjson"
\* data?.data?.children is truthy
HasChildren(d) == d.t \in {"listing", "badchildren"}
\* Array.isArray(data) && data[0]?.data?.children?.[0]?.data
IsPostDocument(d) == d.t = "array" /\ Len(d.children) >= 1

-----------------------------------------------------------------------------
(* Request URLs *)

\* App.tsx:81-82
PostJsonUrl(url) ==
    StripTrailingSlash(BeforeQuestionMark(url)) \o <<".json", "?", "raw_json=1">>

\* App.tsx:119-129
EngagementUrl(q, after) ==
    LET afterParam == IF after # Null THEN <<"&after=">> \o after ELSE <<>>
    IN  IF q.activeSearchQuery # <<>>
        THEN <<"https://www.reddit.com/search.json", "?", "q=">>
             \o EncodeURIComponent(q.activeSearchQuery)
             \o <<"&sort=", "top", "&raw_json=1", "&limit=100">> \o afterParam
        ELSE <<"https://www.reddit.com/r/">> \o q.subreddit
             \o <<"/", "top", ".json", "?", "t=all", "&raw_json=1", "&limit=100">>
             \o afterParam

\* App.tsx:164-178
StandardUrl(q) ==
    IF q.activeSearchQuery # <<>>
    THEN IF q.sort = "videos"
         THEN <<"https://www.reddit.com/search.json", "?", "q=">>
              \o EncodeURIComponent(q.activeSearchQuery \o <<" ", "site", ":", "v.redd.it">>)
              \o <<"&sort=", "relevance", "&limit=50", "&raw_json=1">>
         ELSE <<"https://www.reddit.com/search.json", "?", "q=">>
              \o EncodeURIComponent(q.activeSearchQuery)
              \o <<"&sort=", q.sort, "&limit=50", "&raw_json=1">>
    ELSE IF q.sort = "videos"
         THEN <<"https://www.reddit.com/r/">> \o q.subreddit
              \o <<"/search.json", "?", "q=", "site", "%3A", "v.redd.it",
                   "&restrict_sr=on", "&sort=", "new", "&limit=50", "&raw_json=1">>
         ELSE <<"https://www.reddit.com/r/">> \o q.subreddit
              \o <<"/", q.sort, ".json", "?", "limit=50", "&raw_json=1">>

-----------------------------------------------------------------------------
(* The Query and the handlers that change it  (App.tsx:232-256) *)

Query(sub, so, search, url) ==
    [subreddit |-> sub, sort |-> so, activeSearchQuery |-> search, activePostUrl |-> url]

CurrentQuery == Query(subreddit, sort, activeSearchQuery, activePostUrl)

\* a subreddit selection that keeps whatever sort was selected
handleSubredditChange_keepsSort(q, newSubreddit) ==
    Query(newSubreddit, q.sort, <<>>, <<>>)

handleSubredditChange(q, newSubreddit) ==
    Query(newSubreddit,
          IF q.sort = "relevance" \/ q.sort = "comments" THEN "hot" ELSE q.sort,
          <<>>, <<>>)

\* a sort selection that also leaves the search
handleSortChange_leavesSearch(q, newSort) ==
    [q EXCEPT !.sort = newSort, !.activeSearchQuery = <<>>]

handleSortChange(q, newSort) == [q EXCEPT !.sort = newSort]

\* the global search leaves the subreddit context in place
handleGlobalSearch_keepsSubreddit(q, searchQuery) ==
    Query(q.subreddit, q.sort, searchQuery, <<>>)

handleGlobalSearch(q, searchQuery) == Query(<<>>, q.sort, searchQuery, <<>>)

handleUrlSearch(q, url) == Query(<<>>, q.sort, <<>>, url)

\* Header: const SORTS = activeSearchQuery ? SEARCH_SORTS : BROWSE_SORTS
SORTS(q) == IF q.activeSearchQuery # <<>> THEN SEARCH_SORTS ELSE BROWSE_SORTS

-----------------------------------------------------------------------------
(* fetchPosts: one session per invocation *)

\* a free-text search is served by the single search request whatever the sort
Branch_searchBeforeEngagement(q) ==
    IF q.activePostUrl # <<>> THEN "url"
    ELSE IF q.activeSearchQuery # <<>> THEN "standard"
    ELSE IF q.sort = "engagement" THEN "engagement"
    ELSE "standard"

\* a direct post URL is served like a listing
Branch_noUrlBranch(q) ==
    IF q.sort = "engagement" THEN "engagement" ELSE "standard"

\* the branch of fetchPosts a Query runs  (App.tsx:77, 108, 163)
Branch(q) ==
    IF q.activePostUrl # <<>> THEN "url"
    ELSE IF q.sort = "engagement" THEN "engagement"
    ELSE "standard"

\* the page fetch of the engagement loop is not given the signal
FetchSignalled_notInEngagement(branch) == branch \in {"url", "standard"}

\* every fetch of the branch is given { signal }  (App.tsx:84, 131, 180)
FetchSignalled(branch) == branch \in {"url", "engagement", "standard"}

\* a loop condition without the page limit
EngagementLoopCond_noPageLimit(collected, pagesFetched, aborted) ==
    /\ Len(collected) < targetCount
    /\ ~aborted

\* while (collectedPosts.length < targetCount && pagesFetched < maxPagesToFetch
\*        && !signal.aborted)
EngagementLoopCond(collected, pagesFetched, aborted) ==
    /\ Len(collected) < targetCount
    /\ pagesFetched < maxPagesToFetch
    /\ ~aborted

\* .filter(p => p.is_video && p.score > minScore && p.num_comments > minComments)
IsQualifying(p) == p.is_video /\ p.score > minScore /\ p.num_comments > minComments
Qualifying(children) == SelectSeq(children, IsQualifying)

\* the collected posts are published without truncation
SliceToTarget_untruncated(collected) == collected

\* collectedPosts.slice(0, targetCount)
SliceToTarget(collected) ==
    SubSeq(collected, 1, IF Len(collected) < targetCount THEN Len(collected) ELSE targetCount)

\* a catch block that reports an AbortError like any other error
CatchError_reportsAbort(e) ==
    IF e.isError
    THEN [write |-> TRUE, message |-> e.message]
    ELSE [write |-> TRUE, message |-> MsgUnknown]

\* catch (e): what is handed to setError, if anything  (App.tsx:208-217)
CatchError(e) ==
    IF e.isError
    THEN IF e.name = "AbortError"
         THEN [write |-> FALSE, message |-> Null]
         ELSE [write |-> TRUE, message |-> e.message]
    ELSE [write |-> TRUE, message |-> MsgUnknown]

\* a finally block that clears the spinner whatever the signal says
FinallyLoading_unguarded(aborted, current) == FALSE

\* a finally block that never clears the spinner
FinallyLoading_never(aborted, current) == current

\* finally { if (!signal.aborted) setLoading(false) }  (App.tsx:218-222)
FinallyLoading(aborted, current) == IF ~aborted THEN FALSE ELSE current

\* the previous controller is replaced without being aborted
AbortCurrent_omitted(ss, ref) == ss

\* abortControllerRef.current?.abort()  (App.tsx:67, 228)
AbortCurrent(ss, ref) ==
    IF ref \in DOMAIN ss THEN [ss EXCEPT ![ref].aborted = TRUE] ELSE ss

\* what the upstream last answered to a session: nothing yet, a transport
\* failure, a response status, or a response body (its shape, the number
\* of its children, and whether it reported a cursor to a further page)
Answer(kind, status, t, n) ==
    [kind |-> kind, status |-> status, t |-> t, n |-> n, more |-> FALSE]
NoAnswer == Answer("none", 0, "", 0)
TransportFailure == Answer("transport", 0, "", 0)
StatusAnswer(status) == Answer("status", status, "", 0)
BodyAnswer(d) ==
    [Answer("body", 200, d.t, Len(d.children)) EXCEPT !.more = d.after # Null]

\* the session as fetchPosts leaves it at its first await, or at its return
\* when the URL check throws before any request  (App.tsx:66-84, 108-131, 163-183)
NewSession(q, by) ==
    LET branch == Branch(q)
        base == [q |-> q, branch |-> branch, startedBy |-> by, aborted |-> FALSE,
                 pc |-> "fetch", outcome |-> "pending", nreq |-> 1,
                 pagesFetched |-> 0, collectedPosts |-> <<>>, after |-> Null,
                 url |-> <<>>, answer |-> NoAnswer, delivered |-> <<>>]
    IN  IF branch = "url"
        THEN IF ~IsRedditPostUrl(q.activePostUrl)
             THEN [base EXCEPT !.pc = "done", !.nreq = 0,
                      !.outcome = IF CatchError(NewError(MsgInvalidUrl)).write
                                  THEN "failed" ELSE "cancelled"]
             ELSE [base EXCEPT !.url = PostJsonUrl(q.activePostUrl)]
        ELSE IF branch = "engagement"
        THEN IF EngagementLoopCond(<<>>, 0, FALSE)
             THEN [base EXCEPT !.pagesFetched = 1, !.url = EngagementUrl(q, Null)]
             ELSE [base EXCEPT !.pc = "done", !.nreq = 0, !.outcome = "succeeded"]
        ELSE [base EXCEPT !.url = StandardUrl(q)]

EmptyQuery == Query(<<>>, "", <<>>, <<>>)

\* an invocation that returned: its locals are gone, and unless its controller
\* is still the current one nothing but the way it ended is kept.  delivered
\* records the children of the listing pages the invocation has read.
Returned(sess, outcome, isCurrent) ==
    IF isCurrent
    THEN [sess EXCEPT !.pc = "done", !.outcome = outcome,
                      !.collectedPosts = <<>>, !.after = Null]
    ELSE [sess EXCEPT !.pc = "done", !.outcome = outcome,
                      !.collectedPosts = <<>>, !.after = Null,
                      !.q = EmptyQuery, !.url = <<>>, !.answer = NoAnswer,
                      !.delivered = <<>>]

\* the lowest slot no invocation occupies
FreeSlots == {i \in 1..MaxLive : i \notin DOMAIN sessions}
FreeSlot == CHOOSE i \in FreeSlots : \A j \in FreeSlots : i <= j

Restrict(f, dom) == [i \in dom |-> f[i]]

\* fetchPosts() that leaves the posts of the previous session on display
RunFetchPosts_keepsPosts(ss, q, by, reqs) ==
    LET new == NewSession(q, by)
        c == CatchError(NewError(MsgInvalidUrl))
        aborted == AbortCurrent(ss, abortControllerRef)
        kept == Restrict(aborted, {i \in DOMAIN aborted : aborted[i].pc # "done"})
    IN  /\ FreeSlots # {}
        /\ sessions' = kept @@ (FreeSlot :> new)
        /\ abortControllerRef' = FreeSlot
        /\ requests' = reqs + new.nreq
        /\ posts' = posts
        /\ error' = IF new.pc = "done" /\ new.outcome = "failed" /\ c.write
                    THEN c.message ELSE Null
        /\ loading' = IF new.pc = "done" THEN FinallyLoading(FALSE, TRUE) ELSE TRUE

\* fetchPosts(): abort the previous controller, install a new one, reset the
\* view, run to the first await  (App.tsx:66-73; the effect cleanup, 227-229,
\* aborts the same controller just before).  Invocations that have returned
\* are dropped.  reqs: the requests counted before this call.
RunFetchPosts(ss, q, by, reqs) ==
    LET new == NewSession(q, by)
        c == CatchError(NewError(MsgInvalidUrl))
        aborted == AbortCurrent(ss, abortControllerRef)
        kept == Restrict(aborted, {i \in DOMAIN aborted : aborted[i].pc # "done"})
    IN  /\ FreeSlots # {}
        /\ sessions' = kept @@ (FreeSlot :> new)
        /\ abortControllerRef' = FreeSlot
        /\ requests' = reqs + new.nreq
        /\ posts' = <<>>
        /\ error' = IF new.pc = "done" /\ new.outcome = "failed" /\ c.write
                    THEN c.message ELSE Null
        /\ loading' = IF new.pc = "done" THEN FinallyLoading(FALSE, TRUE) ELSE TRUE

\* a 404 is reported as a missing subreddit whether or not a search is active
StatusError_ignoresSearch(sess, status) ==
    CASE sess.branch = "url" -> NewError(MsgUrlStatus)
      [] sess.branch = "engagement" ->
            IF status = 404
            THEN NewError(MsgNotFound(sess.q.subreddit))
            ELSE NewError(MsgPageStatus(sess.pagesFetched, StatusText(status)))
      [] OTHER ->
            IF status = 404
            THEN NewError(MsgNotFound(sess.q.subreddit))
            ELSE NewError(MsgStatus(StatusText(status), status))

\* the error thrown for a response that is not ok  (App.tsx:85-87, 132-137, 185-190)
StatusError(sess, status) ==
    CASE sess.branch = "url" -> NewError(MsgUrlStatus)
      [] sess.branch = "engagement" ->
            IF status = 404 /\ sess.q.activeSearchQuery = <<>>
            THEN NewError(MsgNotFound(sess.q.subreddit))
            ELSE NewError(MsgPageStatus(sess.pagesFetched, StatusText(status)))
      [] OTHER ->
            IF status = 404 /\ sess.q.activeSearchQuery = <<>> /\ sess.q.activePostUrl = <<>>
            THEN NewError(MsgNotFound(sess.q.subreddit))
            ELSE NewError(MsgStatus(StatusText(status), status))

\* does reading and checking body d throw, and what
\* (App.tsx:89-100, 139-146, 192-205)
BodyThrows(branch, d) ==
    CASE branch = "url" -> ParseFails(d) \/ ~IsPostDocument(d)
      [] branch = "engagement" -> ParseFails(d) \/ d.t = "badchildren"
      [] OTHER -> ParseFails(d) \/ ~HasChildren(d) \/ d.t = "badchildren"

BodyError(branch, d) ==
    CASE branch = "url" ->
            IF ParseFails(d) THEN NewError(MsgInvalidJson) ELSE NewError(MsgNotAPost)
      [] branch = "engagement" ->
            IF ParseFails(d) THEN JsonSyntaxError ELSE NotAFunctionError
      [] OTHER ->
            IF ParseFails(d) THEN NewError(MsgInvalidJson)
            ELSE IF ~HasChildren(d) THEN NewError(MsgUnexpectedFormat)
            ELSE NotAFunctionError

-----------------------------------------------------------------------------
(* How an invocation of fetchPosts ends.  A state setter called after the  *)
(* unmount changes nothing.                                                *)

IsCurrent(s) == s = abortControllerRef

\* an await rejected with e, or the code threw e: catch, then finally
Throw(s, sess, e) ==
    LET c == CatchError(e)
    IN  /\ sessions' = [sessions EXCEPT
               ![s] = Returned(sess, IF c.write THEN "failed" ELSE "cancelled",
                               IsCurrent(s))]
        /\ error' = IF c.write /\ mounted THEN c.message ELSE error
        /\ loading' = IF mounted THEN FinallyLoading(sess.aborted, loading) ELSE loading
        /\ UNCHANGED <<posts, query, abortControllerRef, requests, mounted>>

\* an empty result is reported through the error channel
Publish_emptyIsError(s, sess, ps) ==
    IF ps = <<>>
    THEN Throw(s, sess, NewError(MsgUnexpectedFormat))
    ELSE /\ sessions' = [sessions EXCEPT ![s] = Returned(sess, "succeeded", IsCurrent(s))]
         /\ posts' = IF mounted THEN ps ELSE posts
         /\ loading' = IF mounted THEN FinallyLoading(sess.aborted, loading) ELSE loading
         /\ UNCHANGED <<error, query, abortControllerRef, requests, mounted>>

\* setPosts(ps), then finally  (App.tsx:161, 206)
Publish(s, sess, ps) ==
        /\ sessions' = [sessions EXCEPT ![s] = Returned(sess, "succeeded", IsCurrent(s))]
        /\ posts' = IF mounted THEN ps ELSE posts
        /\ loading' = IF mounted THEN FinallyLoading(sess.aborted, loading) ELSE loading
        /\ UNCHANGED <<error, query, abortControllerRef, requests, mounted>>

\* if (signal.aborted) return, then finally  (App.tsx:156-159)
ReturnAborted(s, sess) ==
        /\ sessions' = [sessions EXCEPT ![s] = Returned(sess, "cancelled", IsCurrent(s))]
        /\ loading' = IF mounted THEN FinallyLoading(sess.aborted, loading) ELSE loading
        /\ UNCHANGED <<posts, error, query, abortControllerRef, requests, mounted>>

\* setPosts([fetchedPost]); setSubreddit(fetchedPost.subreddit); return; finally.
\* A changed subreddit gives fetchPosts a new identity (deps, App.tsx:223), so
\* the effect (App.tsx:225-230) runs its cleanup and calls fetchPosts again
\* when the update is committed.
PublishUrlPost(s, sess, post) ==
    LET ss == [sessions EXCEPT ![s] = Returned(sess, "succeeded", IsCurrent(s))]
        newq == [CurrentQuery EXCEPT !.subreddit = post.subreddit]
    IN  IF mounted /\ newq # CurrentQuery
        THEN /\ subreddit' = post.subreddit
             /\ RunFetchPosts(ss, newq, "setSubreddit", requests)
             /\ UNCHANGED <<sort, activeSearchQuery, activePostUrl, mounted>>
        ELSE /\ sessions' = ss
             /\ posts' = IF mounted THEN <<post>> ELSE posts
             /\ loading' = IF mounted THEN FinallyLoading(sess.aborted, loading) ELSE loading
             /\ UNCHANGED <<error, query, abortControllerRef, requests, mounted>>

\* the engagement loop after a page body that did not throw  (App.tsx:140-161)
EngagementPage(s, sess, d) ==
    LET stop == ~HasChildren(d) \/ Len(d.children) = 0
        collected == IF stop THEN sess.collectedPosts
                     ELSE sess.collectedPosts \o Qualifying(d.children)
        after == IF stop THEN sess.after ELSE d.after
        break == stop \/ after = Null
        read == [sess EXCEPT !.delivered =
                    IF stop THEN sess.delivered ELSE sess.delivered \o d.children]
    IN  IF ~break /\ EngagementLoopCond(collected, sess.pagesFetched, sess.aborted)
        THEN /\ sessions' = [sessions EXCEPT ![s] =
                    [read EXCEPT !.pc = "fetch",
                                 !.pagesFetched = sess.pagesFetched + 1,
                                 !.collectedPosts = collected,
                                 !.after = after,
                                 !.nreq = sess.nreq + 1,
                                 !.url = EngagementUrl(sess.q, after)]]
             /\ requests' = requests + 1
             /\ UNCHANGED <<ui, query, abortControllerRef, mounted>>
        ELSE IF sess.aborted
             THEN ReturnAborted(s, read)
             ELSE Publish(s, read, SliceToTarget(collected))

-----------------------------------------------------------------------------
(* Steps of a suspended session *)

Awaiting(s) == sessions[s].pc \in {"fetch", "body"}

\* the awaited promise of a session honours the signal it was given
Cancelled(s) == sessions[s].aborted /\ FetchSignalled(sessions[s].branch)

\* abort() rejects the awaited promise at once, and the continuation of the
\* await is a microtask: it runs before any other task (a user event, a
\* network callback) is taken up
MicrotaskPending == \E s \in DOMAIN sessions : Awaiting(s) /\ Cancelled(s)

\* the aborted fetch / text() / json() rejects with AbortError
AbortRejects(s) ==
    /\ Awaiting(s) /\ Cancelled(s)
    /\ Throw(s, sessions[s], AbortError)

\* the request fails in transport
FetchFails(s) ==
    /\ ~MicrotaskPending
    /\ sessions[s].pc = "fetch"
    /\ Throw(s, [sessions[s] EXCEPT !.answer = TransportFailure], NetworkError)

\* the response headers arrive
FetchResolves(s) ==
    /\ ~MicrotaskPending
    /\ sessions[s].pc = "fetch"
    /\ \E status \in Statuses :
          LET sess == [sessions[s] EXCEPT !.answer = StatusAnswer(status)]
          IN  IF ~ResponseOk(status)
              THEN Throw(s, sess, StatusError(sess, status))
              ELSE /\ sessions' = [sessions EXCEPT ![s] = [sess EXCEPT !.pc = "body"]]
                   /\ UNCHANGED <<ui, query, abortControllerRef, requests, mounted>>

\* the body stream fails in transport
BodyFails(s) ==
    /\ ~MicrotaskPending
    /\ sessions[s].pc = "body"
    /\ Throw(s, [sessions[s] EXCEPT !.answer = TransportFailure], NetworkError)

\* the body arrives: response.text() + JSON.parse, or response.json()
BodyResolves(s) ==
    /\ ~MicrotaskPending
    /\ sessions[s].pc = "body"
    /\ \E d \in Bodies(sessions[s].nreq) :
          LET sess == [sessions[s] EXCEPT !.answer = BodyAnswer(d)]
              branch == sess.branch
          IN  IF BodyThrows(branch, d) THEN Throw(s, sess, BodyError(branch, d))
              ELSE IF branch = "url" THEN PublishUrlPost(s, sess, d.children[1])
              ELSE IF branch = "engagement" THEN EngagementPage(s, sess, d)
              ELSE Publish(s, [sess EXCEPT !.delivered = d.children], d.children)

-----------------------------------------------------------------------------
(* Operations of the user *)

\* preset buttons of the header
PresetChannels == {<<"newsokur">>}

\* what the user may have typed into the search box
GoodUrl ==
    <<"https://www.", "reddit.com/r/", "aww", "/comments/", "abc123", "/", "a_title",
      "/", "?", "utm_source=share">>
BadUrl == <<"https://", "example.com", "/", "post">>
SearchTerms ==
    [subreddit |-> {<<" ", "r/", "aww", " ">>, <<" ">>},
     keyword   |-> {<<"cat", " ", "videos">>, <<" ">>},
     url       |-> {GoodUrl, BadUrl, <<" ">>}]
SearchModes == {"subreddit", "keyword", "url"}

\* a handler's state updates are committed together; the effect runs only
\* when a dependency of fetchPosts changed  (App.tsx:223-230)
Commit(newq) ==
    /\ mounted
    /\ ~MicrotaskPending
    /\ newq # CurrentQuery
    /\ subreddit' = newq.subreddit
    /\ sort' = newq.sort
    /\ activeSearchQuery' = newq.activeSearchQuery
    /\ activePostUrl' = newq.activePostUrl
    /\ RunFetchPosts(sessions, newq, "query", 0)
    /\ UNCHANGED mounted

\* Header.handlePresetClick
HeaderPresetClick(sub) == Commit(handleSubredditChange(CurrentQuery, sub))

\* Header.handleSearchSubmit; the search mode is whatever the user selected
\* with setSearchMode before submitting
HeaderSearchSubmit(mode, raw) ==
    LET trimmedSearch == Trim(raw)
    IN  /\ trimmedSearch # <<>>
        /\ Commit(CASE mode = "subreddit" ->
                         handleSubredditChange(CurrentQuery, StripRPrefix(trimmedSearch))
                    [] mode = "keyword" -> handleGlobalSearch(CurrentQuery, trimmedSearch)
                    [] OTHER -> handleUrlSearch(CurrentQuery, trimmedSearch))

\* a sort button; the buttons are rendered only while no post URL is active
HeaderSortClick(newSort) ==
    /\ activePostUrl = <<>>
    /\ newSort \in SORTS(CurrentQuery)
    /\ Commit(handleSortChange(CurrentQuery, newSort))

\* the "Try Again" button of the error view: onClick={fetchPosts}
TryAgain ==
    /\ mounted /\ ~loading /\ error # Null
    /\ ~MicrotaskPending
    /\ RunFetchPosts(sessions, CurrentQuery, "retry", 0)
    /\ UNCHANGED <<query, mounted>>

\* the effect cleanup on unmount  (App.tsx:227-229)
Unmount ==
    /\ mounted
    /\ ~MicrotaskPending
    /\ mounted' = FALSE
    /\ sessions' = AbortCurrent(sessions, abortControllerRef)
    /\ UNCHANGED <<ui, query, abortControllerRef, requests>>

-----------------------------------------------------------------------------
(* The proxy: GET /api/fetch of src/server.js, its variant of              *)
(* src/unnamed/part_002, and the endpoints handler of src/types.ts.  One   *)
(* request is followed from its arrival to the response sent.              *)

\* "server": server.js:24-57;  "variant": part_002:72-115;
\* "endpoints": types.ts:41-110
Handlers == {"server", "variant", "endpoints"}

\* a query parameter as express hands it over: undefined, a string, or an
\* array when the parameter is repeated
Param(type, value) == [type |-> type, value |-> value]

ProxiedUrl == <<"https://www.reddit.com/r/", "aww", "/", "hot", ".json">>

\* req.query.url of /api/fetch; req.query.subreddit of the endpoints handler
Targets(h) ==
    IF h = "endpoints"
    THEN {Param("string", <<"aww">>), Param("undefined", <<>>)}
    ELSE {Param("undefined", <<>>), Param("string", <<>>),
          Param("string", ProxiedUrl), Param("array", ProxiedUrl)}

\* `${param}` in a template literal
TemplateString(param) ==
    IF param.type = "undefined" THEN <<"undefined">> ELSE param.value

\* const endpoints = [...]  (types.ts:48-52), sort "hot" and limit 25 by default
endpoints(sub) ==
    << <<"https://www.reddit.com/r/">> \o TemplateString(sub) \o <<"/", "hot", ".json", "?limit=", "25">>,
       <<"https://api.reddit.com/r/">> \o TemplateString(sub) \o <<"/", "hot", "?limit=", "25">>,
       <<"https://old.reddit.com/r/">> \o TemplateString(sub) \o <<"/", "hot", ".json", "?limit=", "25">> >>

\* the statuses the upstream may answer the proxy with
ProxyStatuses == {200, 403, 500}

\* the text of an upstream body: JSON as JSON.stringify writes it, JSON with
\* other spacing, or no JSON at all; id tells which upstream call delivered it
Text(kind, id) == [kind |-> kind, id |-> id, error |-> "", details |-> FALSE]
UpstreamBodies == {"json", "json_spaced", "html"}

\* res.json({error}) / res.json({error, details})
ErrorJson(text, details) ==
    [kind |-> "error", id |-> 0, error |-> text, details |-> details]

\* JSON.parse(text): the value, or a throw
JsonParses(b) == b.kind \in {"json", "json_spaced"}
JsonParse(b) == [value |-> b.id]
\* JSON.stringify(value), as res.json sends it
JsonStringify(v) == Text("json", v.value)

\* what the client of the proxy receives
Res(status, body) == [status |-> status, body |-> body]

\* how an upstream call of the proxy went: a status, or a transport error
AttemptOutcome(kind, status) == [kind |-> kind, status |-> status]

ProxyIdle ==
    [handler |-> "", target |-> Param("undefined", <<>>), pc |-> "idle",
     attempt |-> 0, fetchUrl |-> <<>>, presetHeaders |-> FALSE, response |-> 0,
     history |-> <<>>, read |-> "", out |-> <<>>, calls |-> 0, hung |-> FALSE]

\* res.status(..).json(..) / res.send(..), then return
Send(p, res) == [p EXCEPT !.pc = "done", !.out = Append(p.out, res)]

\* await fetch(url, { headers })
StartFetch(p, url, headers) ==
    [p EXCEPT !.pc = "fetch", !.fetchUrl = url, !.presetHeaders = headers,
              !.calls = p.calls + 1]

\* after the loop over the endpoints and the fallback: the status or the
\* body read  (types.ts:86-92)
AfterFallback(p) ==
    IF ~ResponseOk(p.response)
    THEN Send(p, Res(p.response, ErrorJson("Reddit API responded with status", FALSE)))
    ELSE [p EXCEPT !.pc = "body"]

\* the header-less request is made whatever the loop ended with
AfterLoop_alwaysFallback(p) ==
    StartFetch([p EXCEPT !.attempt = Len(endpoints(p.target)) + 1],
               endpoints(p.target)[1], FALSE)

\* if (!response || !response.ok) fetch again without headers  (types.ts:79-84)
AfterLoop(p) ==
    IF p.response = 0 \/ ~ResponseOk(p.response)
    THEN StartFetch([p EXCEPT !.attempt = Len(endpoints(p.target)) + 1],
                    endpoints(p.target)[1], FALSE)
    ELSE AfterFallback(p)

\* the next iteration of for (const url of endpoints)  (types.ts:57-77)
NextEndpoint(p) ==
    IF p.attempt < Len(endpoints(p.target))
    THEN StartFetch([p EXCEPT !.attempt = p.attempt + 1],
                    endpoints(p.target)[p.attempt + 1], TRUE)
    ELSE AfterLoop(p)

\* the catch of the handler  (server.js:52-56, part_002:108-114, types.ts:106-109)
ProxyCatch(p) ==
    IF p.handler = "endpoints"
    THEN Send(p, Res(500, ErrorJson("Failed to fetch data from Reddit API", FALSE)))
    ELSE Send(p, Res(500, ErrorJson("Proxy fetch failed", TRUE)))

\* the handler is called with the request and runs to its first await, or to
\* the 400 of a missing url  (server.js:24-30, part_002:72-86, types.ts:41-59)
ProxyReceive(h, t) ==
    /\ proxy.pc = "idle"
    /\ LET p == [proxy EXCEPT !.handler = h, !.target = t]
       IN  proxy' =
             IF h = "endpoints"
             THEN StartFetch([p EXCEPT !.attempt = 1], endpoints(t)[1], TRUE)
             ELSE IF t.type # "string" \/ t.value = <<>>
             THEN Send(p, Res(400, ErrorJson("Missing url query param", FALSE)))
             ELSE StartFetch([p EXCEPT !.attempt = 1], t.value, TRUE)
    /\ UNCHANGED <<appvars, modal>>

\* the upstream answers the call with a status
UpstreamResponds(status) ==
    /\ proxy.pc = "fetch" /\ ~proxy.hung
    /\ LET p == [proxy EXCEPT !.response = status,
                    !.history = Append(proxy.history, AttemptOutcome("status", status))]
       IN  proxy' =
             IF p.handler # "endpoints" THEN [p EXCEPT !.pc = "body"]
             ELSE IF p.attempt > Len(endpoints(p.target)) THEN AfterFallback(p)
             ELSE IF ResponseOk(status) THEN AfterLoop(p)
             ELSE NextEndpoint(p)
    /\ UNCHANGED <<appvars, modal>>

\* the call fails in transport: fetch rejects
UpstreamRejects ==
    /\ proxy.pc = "fetch" /\ ~proxy.hung
    /\ LET p == [proxy EXCEPT
                    !.history = Append(proxy.history, AttemptOutcome("error", 0))]
       IN  proxy' =
             IF p.handler = "endpoints" /\ p.attempt <= Len(endpoints(p.target))
             THEN NextEndpoint(p)
             ELSE ProxyCatch(p)
    /\ UNCHANGED <<appvars, modal>>

\* the body of the response arrives: upstream.text() / response.json()
\* (server.js:41-51, part_002:94-107, types.ts:92-105)
UpstreamBodyArrives(kind) ==
    /\ proxy.pc = "body" /\ ~proxy.hung
    /\ LET b == Text(kind, proxy.calls)
           p == [proxy EXCEPT !.read = kind]
       IN  proxy' =
             CASE p.handler = "server" -> Send(p, Res(p.response, b))
               [] p.handler = "variant" ->
                     IF ResponseOk(p.response)
                     THEN Send(p, Res(p.response, b))
                     ELSE Send(p, Res(p.response, ErrorJson("Reddit API error", TRUE)))
               [] OTHER ->
                     IF JsonParses(b)
                     THEN Send(p, Res(200, JsonStringify(JsonParse(b))))
                     ELSE ProxyCatch(p)
    /\ UNCHANGED <<appvars, modal>>

\* the body stream fails in transport
UpstreamBodyRejects ==
    /\ proxy.pc = "body" /\ ~proxy.hung
    /\ proxy' = ProxyCatch(proxy)
    /\ UNCHANGED <<appvars, modal>>

\* the upstream holds the connection and never answers
UpstreamHangs ==
    /\ proxy.pc \in {"fetch", "body"} /\ ~proxy.hung
    /\ proxy' = [proxy EXCEPT !.hung = TRUE]
    /\ UNCHANGED <<appvars, modal>>

-----------------------------------------------------------------------------
(* The AI-assisted modals: YouTubeModal (src/server.js:72-412) and          *)
(* SeoQuestionModal (src/components/SeoQuestionModal.tsx).  One modal is    *)
(* followed from the click that opens it to its close.                      *)

Modals == {"youtube", "seo"}

\* the post of the card that opened the modal
ModalPost ==
    [title |-> <<"Cat opens a door">>, subreddit |-> <<"aww">>,
     permalink |-> <<"/r/aww/comments/abc123/">>, author |-> <<"catfan">>]

\* response.text of the AI service: JSON of the schema asked for, the JSON
\* text null, text that is no JSON, or no text at all (undefined)
AiTexts == {"object", "null", "notjson", "undefined"}

\* JSON.parse(response.text) throws
AiParseFails(text) == text \in {"notjson", "undefined"}

CopyrightRisks == {"Low", "Medium", "High"}

\* what the AI service answers to the copyright prompt
AiAnalysis(risk) ==
    [copyrightRisk |-> risk, reasoning |-> <<"ai reasoning">>,
     recommendation |-> <<"ai recommendation">>]

\* the analysis set in the catch of analyzeCopyrightRisk  (server.js:154-158)
DefaultAnalysis ==
    [copyrightRisk |-> "Medium",
     reasoning |-> <<"AI analysis failed. The risk is marked as Medium as a precaution.">>,
     recommendation |-> <<"Manually review the video for any copyrighted music, logos, or watermarks before uploading. It is often safest to mute the original audio and add your own commentary or royalty-free music.">>]

AiDetails ==
    [title |-> <<"ai title">>, description |-> <<"ai description">>,
     tags |-> << <<"cats">>, <<"funny">> >>]

\* the details set in the catch of generateDetails  (server.js:204-208)
DefaultDetails(post) ==
    [title |-> post.title,
     description |-> <<"Original post: https://www.reddit.com">> \o post.permalink
                     \o <<"\nPosted by: u/">> \o post.author,
     tags |-> << <<"reddit">>, post.subreddit >>]

AiSeoContent ==
    [shortsTitle |-> <<"ai shorts title">>, searchQuestion |-> <<"ai question">>,
     suggestedHashtags |-> << <<"shorts">>, <<"cats">> >>]

MsgAnalysisFailed ==
    <<"Failed to analyze copyright risk. Please review the content manually before proceeding.">>
MsgDetailsFailed == <<"Failed to generate AI content. You can still proceed manually.">>
MsgSeoFailed == <<"Failed to generate the YouTube Growth Kit. Please try again later.">>

\* text.replace(/#/g, '').split(' ').map(t => t.trim()), on a text of tokens:
\* the "#" tokens go, " " separates, the words between two separators are one tag
RECURSIVE SplitTags(_, _)
SplitTags(text, cur) ==
    IF text = <<>> THEN <<cur>>
    ELSE IF Head(text) = " " THEN <<cur>> \o SplitTags(Tail(text), <<>>)
    ELSE IF Head(text) = "#" THEN SplitTags(Tail(text), cur)
    ELSE SplitTags(Tail(text), Append(cur, Head(text)))

\* what the user may type into a field of the generate view
TypedTexts == {<<>>, <<"#", "cats", " ", "#", "door">>}

\* the calls to the AI service a modal makes
AiCalls == {"analyze", "generate", "seo"}

\* no modal is open
NoModal ==
    [kind |-> "", mounted |-> FALSE, closed |-> FALSE, view |-> "",
     isLoading |-> FALSE, error |-> Null,
     analysis |-> <<>>, aiContent |-> <<>>, seoContent |-> <<>>,
     call |-> "", outcome |-> [c \in AiCalls |-> "none"], confirmed |-> 0]

\* the body of an AI call up to its await: setIsLoading(true); setError(null)
\* (and setAiContent(null) in generateDetails)
StartAiCall(m, c) ==
    LET started == [m EXCEPT !.isLoading = TRUE, !.error = Null, !.call = c,
                             !.outcome[c] = "pending"]
    IN  IF c = "generate" THEN [started EXCEPT !.aiContent = <<>>] ELSE started

\* try: JSON.parse(response.text) and the setter of the call's result
\* (server.js:149-150, 198-199; SeoQuestionModal.tsx:78-79)
AiCallSucceeds(m, c, value) ==
    LET done == [m EXCEPT !.call = "", !.outcome[c] = "ok"]
    IN  IF ~m.mounted THEN done
        ELSE CASE c = "analyze" -> [done EXCEPT !.analysis = value, !.isLoading = FALSE]
               [] c = "generate" -> [done EXCEPT !.aiContent = value, !.isLoading = FALSE]
               [] OTHER -> [done EXCEPT !.seoContent = value, !.isLoading = FALSE]

\* catch, then finally  (server.js:151-161, 201-211; SeoQuestionModal.tsx:81-86)
AiCallFails(m, c) ==
    LET done == [m EXCEPT !.call = "", !.outcome[c] = "failed"]
    IN  IF ~m.mounted THEN done
        ELSE CASE c = "analyze" ->
                    [done EXCEPT !.error = MsgAnalysisFailed,
                                 !.analysis = <<DefaultAnalysis>>, !.isLoading = FALSE]
               [] c = "generate" ->
                    [done EXCEPT !.error = MsgDetailsFailed,
                                 !.aiContent = <<DefaultDetails(ModalPost)>>,
                                 !.isLoading = FALSE]
               [] OTHER -> [done EXCEPT !.error = MsgSeoFailed, !.isLoading = FALSE]

\* the values JSON.parse may give for an answer to call c
AiValues(c, text) ==
    IF text = "null" THEN {<<>>}
    ELSE CASE c = "analyze" -> {<<AiAnalysis(risk)>> : risk \in CopyrightRisks}
           [] c = "generate" -> {<<AiDetails>>}
           [] OTHER -> {<<AiSeoContent>>}

\* the post card opens a modal: the component mounts with its initial state
\* and its effect starts the first AI call  (server.js:97-102, 214-218;
\* SeoQuestionModal.tsx:19-22, 89-91)
OpenModal(k) ==
    /\ modal = NoModal
    /\ modal' = StartAiCall(
           [NoModal EXCEPT !.kind = k, !.mounted = TRUE, !.isLoading = TRUE,
                           !.view = IF k = "youtube" THEN "analyze" ELSE ""],
           IF k = "youtube" THEN "analyze" ELSE "seo")
    /\ UNCHANGED <<appvars, proxy>>

\* the AI service answers the pending call
AiResponds(text) ==
    /\ modal.call # ""
    /\ IF AiParseFails(text)
       THEN modal' = AiCallFails(modal, modal.call)
       ELSE \E value \in AiValues(modal.call, text) :
                modal' = AiCallSucceeds(modal, modal.call, value)
    /\ UNCHANGED <<appvars, proxy>>

\* the pending call is rejected (no key, network, quota)
AiRejects ==
    /\ modal.call # ""
    /\ modal' = AiCallFails(modal, modal.call)
    /\ UNCHANGED <<appvars, proxy>>

\* the button of the analysis view takes a click whatever the state
ProceedEnabled_always(m) == m.mounted /\ m.view = "analyze"

\* "Acknowledge & Continue": disabled={isLoading || !analysis}  (server.js:289-294)
ProceedEnabled(m) ==
    m.mounted /\ m.view = "analyze" /\ ~(m.isLoading \/ m.analysis = <<>>)

\* "Download & Continue": disabled={isLoading || !aiContent}  (server.js:333-338)
ConfirmEnabled(m) ==
    m.mounted /\ m.view = "generate" /\ ~(m.isLoading \/ m.aiContent = <<>>)

\* setView('generate'); generateDetails()
handleProceedToGenerate ==
    /\ ProceedEnabled(modal)
    /\ modal' = StartAiCall([modal EXCEPT !.view = "generate"], "generate")
    /\ UNCHANGED <<appvars, proxy>>

\* setAiContent(prev => prev ? {...prev, [field]: value} : null), from the
\* inputs of the generate view, which are rendered once the details are there
handleContentChange(field, text) ==
    /\ modal.mounted /\ modal.view = "generate"
    /\ ~modal.isLoading /\ modal.aiContent # <<>>
    /\ modal' = [modal EXCEPT !.aiContent =
                    << IF field = "tags"
                       THEN [modal.aiContent[1] EXCEPT !.tags = SplitTags(text, <<>>)]
                       ELSE [modal.aiContent[1] EXCEPT ![field] = text] >>]
    /\ UNCHANGED <<appvars, proxy>>

\* onConfirm(); window.open(...); setView('instruct')
handleConfirmAndContinue ==
    /\ ConfirmEnabled(modal)
    /\ modal' = [modal EXCEPT !.confirmed = modal.confirmed + 1, !.view = "instruct"]
    /\ UNCHANGED <<appvars, proxy>>

\* onClose: the post card unmounts the modal; a call still pending completes
\* later and its setters change nothing
CloseModal ==
    /\ modal.mounted
    /\ modal' = [modal EXCEPT !.mounted = FALSE, !.closed = TRUE]
    /\ UNCHANGED <<appvars, proxy>>

-----------------------------------------------------------------------------
(* renderContent  (App.tsx:258-308) *)

criteria == <<"with over 1,500 upvotes and 50 comments">>

\* the empty-state message tests the search query before the sort
EmptyMessage_searchFirst(q) ==
    IF q.activeSearchQuery # <<>>
    THEN <<"No posts found for your search: \"">> \o q.activeSearchQuery \o <<"\"">>
    ELSE IF q.sort = "engagement"
    THEN <<"Could not find enough videos in r/">> \o q.subreddit \o <<" ">>
         \o criteria \o <<". Try another subreddit.">>
    ELSE IF q.activePostUrl # <<>>
    THEN <<"Could not load the post from the provided URL.">>
    ELSE <<"No posts found in r/">> \o q.subreddit \o <<".">>

\* the message of the empty state  (App.tsx:283-297)
EmptyMessage(q) ==
    IF q.sort = "engagement"
    THEN IF q.activeSearchQuery # <<>>
         THEN <<"Could not find enough videos matching \"">> \o q.activeSearchQuery
              \o <<"\" ">> \o criteria \o <<".">>
         ELSE <<"Could not find enough videos in r/">> \o q.subreddit \o <<" ">>
              \o criteria \o <<". Try another subreddit.">>
    ELSE IF q.activeSearchQuery # <<>>
    THEN <<"No posts found for your search: \"">> \o q.activeSearchQuery \o <<"\"">>
    ELSE IF q.activePostUrl # <<>>
    THEN <<"Could not load the post from the provided URL.">>
    ELSE <<"No posts found in r/">> \o q.subreddit \o <<".">>

\* what renderContent shows: the spinner, the error view with its message
\* and Try Again, the empty-state message, or the grid of posts
renderContent ==
    IF loading THEN [view |-> "spinner", message |-> <<>>]
    ELSE IF error # Null THEN [view |-> "error", message |-> error]
    ELSE IF Len(posts) = 0 THEN [view |-> "empty", message |-> EmptyMessage(CurrentQuery)]
    ELSE [view |-> "grid", message |-> <<>>]

-----------------------------------------------------------------------------
(* The specification *)

InitialQuery == Query(InitialSubreddit, "hot", <<>>, <<>>)

\* the state once the component is mounted and its effect has run fetchPosts
AppInit ==
    /\ posts = <<>>
    /\ loading = TRUE
    /\ error = Null
    /\ subreddit = InitialQuery.subreddit
    /\ sort = InitialQuery.sort
    /\ activeSearchQuery = InitialQuery.activeSearchQuery
    /\ activePostUrl = InitialQuery.activePostUrl
    /\ sessions = (1 :> NewSession(InitialQuery, "mount"))
    /\ abortControllerRef = 1
    /\ requests = 1
    /\ mounted = TRUE

\* the browser runs the client; no request is at the proxy
Init == AppInit /\ proxy = ProxyIdle /\ modal = NoModal

Next ==
    \/ (\E sub \in PresetChannels : HeaderPresetClick(sub)) /\ UNCHANGED <<proxy, modal>>
    \/ (\E mode \in SearchModes : \E raw \in SearchTerms[mode] :
            HeaderSearchSubmit(mode, raw)) /\ UNCHANGED <<proxy, modal>>
    \/ (\E newSort \in SEARCH_SORTS \cup BROWSE_SORTS : HeaderSortClick(newSort))
          /\ UNCHANGED <<proxy, modal>>
    \/ TryAgain /\ UNCHANGED <<proxy, modal>>
    \/ Unmount /\ UNCHANGED <<proxy, modal>>
    \/ (\E s \in DOMAIN sessions : AbortRejects(s)) /\ UNCHANGED <<proxy, modal>>
    \/ (\E s \in DOMAIN sessions : FetchFails(s)) /\ UNCHANGED <<proxy, modal>>
    \/ (\E s \in DOMAIN sessions : FetchResolves(s)) /\ UNCHANGED <<proxy, modal>>
    \/ (\E s \in DOMAIN sessions : BodyFails(s)) /\ UNCHANGED <<proxy, modal>>
    \/ (\E s \in DOMAIN sessions : BodyResolves(s)) /\ UNCHANGED <<proxy, modal>>

Spec == Init /\ [][Next]_vars

\* a step of a suspended session: the answer to its request arrives
SessionStep ==
    \E s \in DOMAIN sessions :
        \/ AbortRejects(s) \/ FetchFails(s) \/ FetchResolves(s)
        \/ BodyFails(s) \/ BodyResolves(s)

\* an operation of the user on the mounted component
UserOperation ==
    \/ \E sub \in PresetChannels : HeaderPresetClick(sub)
    \/ \E mode \in SearchModes : \E raw \in SearchTerms[mode] : HeaderSearchSubmit(mode, raw)
    \/ \E newSort \in SEARCH_SORTS \cup BROWSE_SORTS : HeaderSortClick(newSort)
    \/ TryAgain

\* the client under the assumption that every request issued is answered in
\* the end, with a response or a failure
LiveSpec == Init /\ [][Next]_vars /\ WF_vars(SessionStep /\ UNCHANGED <<proxy, modal>>)

\* the proxy serves one request; the client does not move
ProxyInit == AppInit /\ proxy = ProxyIdle /\ modal = NoModal

ProxyNext ==
    \/ \E h \in Handlers : \E t \in Targets(h) : ProxyReceive(h, t)
    \/ \E status \in ProxyStatuses : UpstreamResponds(status)
    \/ UpstreamRejects
    \/ \E kind \in UpstreamBodies : UpstreamBodyArrives(kind)
    \/ UpstreamBodyRejects
    \/ UpstreamHangs

ProxySpec == ProxyInit /\ [][ProxyNext]_vars

\* a post card opens one modal; the controller and the proxy do not move
ModalInit == AppInit /\ proxy = ProxyIdle /\ modal = NoModal

ModalNext ==
    \/ \E k \in Modals : OpenModal(k)
    \/ \E text \in AiTexts : AiResponds(text)
    \/ AiRejects
    \/ handleProceedToGenerate
    \/ \E field \in {"title", "description", "tags"} : \E text \in TypedTexts :
          handleContentChange(field, text)
    \/ handleConfirmAndContinue
    \/ CloseModal

ModalSpec == ModalInit /\ [][ModalNext]_vars

-----------------------------------------------------------------------------
(* Properties of the Fetch Controller *)

\* the sessions that count as active: suspended at an await, signal not aborted
ActiveSessions == {s \in DOMAIN sessions : Awaiting(s) /\ ~sessions[s].aborted}

\* the record of session s changes in this step: s resumes from its await
Steps(s) == s \in DOMAIN sessions' /\ sessions'[s] # sessions[s]

\* C1: at most one session is pending at a time, and it is the one the
\* controller ref holds: a new session is installed only with the previous
\* one aborted.
C1_AtMostOnePending ==
    /\ Cardinality(ActiveSessions) <= 1
    /\ ActiveSessions \subseteq {abortControllerRef}

\* a superseded session is still suspended while its successor is pending
C1_Witness ==
    \E s, t \in DOMAIN sessions :
        /\ s # t /\ Awaiting(s) /\ sessions[s].aborted
        /\ t = abortControllerRef /\ t \in ActiveSessions

\* C2: a session whose signal is aborted while it is suspended (at the fetch
\* or at the body read, in any branch) ends with a silent return: it ends
\* cancelled and the error state is left as it was.
C2_CancelledNeverSetsError ==
    [][\A s \in DOMAIN sessions :
          (sessions[s].aborted /\ Awaiting(s) /\ Steps(s))
          => /\ sessions'[s].pc = "done"
             /\ sessions'[s].outcome = "cancelled"
             /\ error' = error]_vars

\* a superseded listing session was cancelled and has returned silently,
\* while its successor is loading
C2_Witness ==
    \E s \in DOMAIN sessions :
        /\ sessions[s].pc = "done" /\ sessions[s].outcome = "cancelled"
        /\ sessions[s].branch = "standard"
        /\ mounted /\ error = Null /\ loading

\* C3: a superseded session writes none of posts, error, loading, subreddit;
\* and whenever loading is false, what is displayed is the result of the
\* session started last, which ran the current Query.
C3_DisplayedByLatest ==
    (mounted /\ ~loading) =>
        /\ abortControllerRef \in DOMAIN sessions
        /\ LET cur == sessions[abortControllerRef]
           IN  /\ cur.pc = "done"
               /\ cur.q = CurrentQuery
               /\ cur.outcome \in {"succeeded", "failed"}
               /\ cur.outcome = "failed" => (error # Null /\ posts = <<>>)
               /\ cur.outcome = "succeeded" => error = Null

C3_NoStaleWrite ==
    /\ []C3_DisplayedByLatest
    /\ [][\A s \in DOMAIN sessions :
             (s # abortControllerRef /\ Awaiting(s) /\ Steps(s))
             => UNCHANGED <<posts, error, loading, subreddit>>]_vars

\* the superseded session has returned and its successor has published posts
C3_Witness ==
    /\ mounted /\ ~loading /\ posts # <<>>
    /\ \E s \in DOMAIN sessions :
          s # abortControllerRef /\ sessions[s].pc = "done"

\* C4: an engagement session cancelled while a page is in flight returns
\* without a further page request, without publishing posts and without an
\* error, and ends cancelled.
C4_EngagementCancel ==
    [][\A s \in DOMAIN sessions :
          (sessions[s].branch = "engagement" /\ sessions[s].aborted
             /\ Awaiting(s) /\ Steps(s))
          => /\ sessions'[s].pc = "done"
             /\ sessions'[s].outcome = "cancelled"
             /\ requests' = requests
             /\ sessions'[s].nreq = sessions[s].nreq
             /\ posts' = posts
             /\ error' = error]_vars

\* an engagement session was cancelled during its third page and returned
C4_Witness ==
    \E s \in DOMAIN sessions :
        /\ sessions[s].branch = "engagement"
        /\ sessions[s].pc = "done" /\ sessions[s].outcome = "cancelled"
        /\ sessions[s].pagesFetched = 3

\* the text does not contain the permalink pattern reddit.com/r/
NoPermalinkPattern(url) == \A i \in 1..Len(url) : url[i] # "reddit.com/r/"

\* C5: a session for a direct URL that does not match the permalink pattern
\* fails with the validation message and has issued no request; no posts
\* are published and the subreddit stays as the URL handler left it.
C5_InvalidUrlFailsWithoutRequest ==
    \A s \in DOMAIN sessions :
        (sessions[s].q.activePostUrl # <<>>
            /\ NoPermalinkPattern(sessions[s].q.activePostUrl))
        => /\ sessions[s].pc = "done"
           /\ sessions[s].outcome = "failed"
           /\ sessions[s].nreq = 0
           /\ s = abortControllerRef
           /\ requests = 0
           /\ error = MsgInvalidUrl
           /\ posts = <<>>
           /\ ~loading
           /\ subreddit = <<>>

\* an invalid URL was submitted and its session has failed
C5_Witness ==
    /\ activePostUrl = BadUrl
    /\ abortControllerRef \in DOMAIN sessions
    /\ sessions[abortControllerRef].outcome = "failed"
    /\ error = MsgInvalidUrl

\* C6: a valid direct URL answered with a well-formed post document settles
\* with that one post published, its subreddit adopted, and a single request
\* issued since the submission.
C6_SingleRequestPerUrlLookup ==
    (mounted /\ ~loading /\ activePostUrl # <<>> /\ error = Null /\ Len(posts) = 1)
    => /\ subreddit = posts[1].subreddit
       /\ requests = 1

\* C7: a session is started only by the mount, by a Query change of the user
\* or by Try Again; never by the client itself after a session has ended.
C7_NoSelfTriggeredSession ==
    \A s \in DOMAIN sessions : sessions[s].startedBy \in {"mount", "query", "retry"}

\* the number of source kinds that are active
ActiveKinds ==
    (IF subreddit # <<>> THEN 1 ELSE 0)
    + (IF activeSearchQuery # <<>> THEN 1 ELSE 0)
    + (IF activePostUrl # <<>> THEN 1 ELSE 0)

\* C8 as stated: at most one of subreddit, search query and post URL is
\* active in every reachable state.
C8_AtMostOneKind == ActiveKinds <= 1

\* C8 amended: a search query is never active together with another kind;
\* the handlers leave at most one kind active; a subreddit is active beside
\* a post URL only as the subreddit of the post that URL's lookup delivered.
C8_KindsAmended ==
    /\ activeSearchQuery # <<>> => (subreddit = <<>> /\ activePostUrl = <<>>)
    /\ (abortControllerRef \in DOMAIN sessions
          /\ sessions[abortControllerRef].startedBy \in {"mount", "query"})
       => ActiveKinds <= 1
    /\ (subreddit # <<>> /\ activePostUrl # <<>>)
       => /\ subreddit = UrlPost.subreddit
          /\ ~NoPermalinkPattern(activePostUrl)

\* a lookup has adopted its post's subreddit beside the active post URL,
\* and the Query was retried in that state
C8_Witness ==
    /\ subreddit # <<>> /\ activePostUrl # <<>>
    /\ sessions[abortControllerRef].startedBy = "retry"

\* the failure class of what the upstream last answered to a session
FailureClass(sess) ==
    CASE sess.answer.kind = "transport" -> "transport"
      [] sess.answer.kind = "status" /\ ~ResponseOk(sess.answer.status) -> "status"
      [] sess.answer.kind = "body" /\ sess.answer.t = "notjson" -> "notjson"
      [] sess.answer.kind = "body" /\ sess.branch = "url"
            /\ ~(sess.answer.t = "array" /\ sess.answer.n >= 1) -> "noshape"
      [] sess.answer.kind = "body" /\ sess.branch # "url"
            /\ sess.answer.t # "listing" -> "noshape"
      [] OTHER -> "none"

\* the current session has returned, and not by cancellation
CurrentSettled ==
    /\ mounted
    /\ abortControllerRef \in DOMAIN sessions
    /\ sessions[abortControllerRef].pc = "done"
    /\ sessions[abortControllerRef].outcome # "cancelled"

\* C9: a session whose upstream call failed in transport, returned a status
\* that is not ok, or returned JSON without the post-list shape ends failed:
\* the error is set and no posts are published.
C9_BadAnswerFails ==
    (CurrentSettled
        /\ FailureClass(sessions[abortControllerRef]) \in {"transport", "status", "noshape"})
    => /\ sessions[abortControllerRef].outcome = "failed"
       /\ error # Null
       /\ posts = <<>>

\* the failure class a message belongs to
MessageClass(msg) ==
    CASE msg = Null -> "none"
      [] msg = MsgInvalidUrl -> "validation"
      [] msg = NetworkError.message -> "transport"
      [] msg \in {MsgInvalidJson, JsonSyntaxError.message} -> "notjson"
      [] msg \in {MsgNotAPost, MsgUnexpectedFormat, NotAFunctionError.message} -> "noshape"
      [] OTHER -> "status"

\* C10: the message shown after a failure tells the failure class: each of
\* the four classes has messages of its own, in every branch.
C10_MessageTellsClass ==
    (CurrentSettled /\ FailureClass(sessions[abortControllerRef]) # "none")
    => MessageClass(error) = FailureClass(sessions[abortControllerRef])

\* the current session has settled on a 404 answer
CurrentGot404 ==
    /\ CurrentSettled
    /\ sessions[abortControllerRef].answer.kind = "status"
    /\ sessions[abortControllerRef].answer.status = 404

\* the generic upstream-failure messages for a 404
Generic404Messages ==
    {<<"Failed to fetch from Reddit: ", "Not Found", " (", "404", ")">>}
    \cup {<<"Failed to fetch from Reddit (page ", NumStr(p), "): ", "Not Found">> :
            p \in 1..maxPagesToFetch}

\* C11: a 404 while only a subreddit is active (no search query, no post URL)
\* sets the "not found or is private" message naming the current subreddit,
\* in the listing / videos branch and in the engagement branch alike; with a
\* search query active a 404 sets the generic upstream-failure message.
C11_NotFoundNamesSubreddit ==
    CurrentGot404 =>
        /\ (activeSearchQuery = <<>> /\ activePostUrl = <<>>)
           => error = <<"Subreddit 'r/">> \o subreddit \o <<"' not found or is private.">>
        /\ activeSearchQuery # <<>> => error \in Generic404Messages

\* the second page of an engagement accumulation within a subreddit was
\* answered 404, and the message names the subreddit
C11_Witness ==
    /\ CurrentGot404
    /\ sessions[abortControllerRef].branch = "engagement"
    /\ sessions[abortControllerRef].pagesFetched = 2
    /\ activeSearchQuery = <<>> /\ subreddit # <<>>
    /\ error = MsgNotFound(subreddit)

\* the current session ran the engagement branch and has succeeded
EngagementSucceeded ==
    /\ CurrentSettled
    /\ sessions[abortControllerRef].branch = "engagement"
    /\ sessions[abortControllerRef].outcome = "succeeded"

\* is p a prefix of q
IsPrefix(p, q) == Len(p) <= Len(q) /\ p = SubSeq(q, 1, Len(p))

\* the delivered posts that are videos above both thresholds, in page order
QualifyingDelivered ==
    SelectSeq(sessions[abortControllerRef].delivered,
              LAMBDA p : p.is_video /\ p.score > 1500 /\ p.num_comments > 50)

\* C12: what a succeeded engagement session published: every post is a video
\* with score above 1500 and more than 50 comments, there are at most 50
\* posts, and they are the first posts, in the order the pages delivered them,
\* of those that qualify (all of them when fewer than 50 qualify).
C12_PublishedQualifyTruncated ==
    EngagementSucceeded =>
        /\ \A i \in 1..Len(posts) :
              posts[i].is_video /\ posts[i].score > 1500 /\ posts[i].num_comments > 50
        /\ Len(posts) <= 50
        /\ IsPrefix(posts, QualifyingDelivered)
        /\ Len(posts) < 50 => posts = QualifyingDelivered

\* more than 50 qualifying posts were delivered and 50 were published, after
\* a page that held posts missing one criterion each
C12_Witness ==
    /\ EngagementSucceeded
    /\ Len(posts) = 50
    /\ Len(QualifyingDelivered) > 50
    /\ Len(sessions[abortControllerRef].delivered) > Len(QualifyingDelivered)

\* the engagement sessions that have not returned
EngagementRunning ==
    {s \in DOMAIN sessions : sessions[s].branch = "engagement" /\ Awaiting(s)}

\* C13: the engagement loop has one page request in flight at a time, the
\* k-th request of a session is its k-th page, k is at most 5, and a page
\* after the first is requested only while fewer than 50 posts are collected
\* and with the cursor the page before it reported; a session never issues
\* a request once it has returned.
C13_PagesSequentialBounded ==
    /\ \A s \in EngagementRunning :
          LET sess == sessions[s]
          IN  /\ sess.nreq = sess.pagesFetched
              /\ sess.pagesFetched \in 1..5
              /\ Len(sess.collectedPosts) < 50
              /\ sess.pagesFetched = 1 => sess.after = <<>>
              /\ sess.pagesFetched > 1 =>
                    /\ sess.after = Cursor(sess.pagesFetched - 1)
                    /\ sess.url[Len(sess.url)] = sess.after[Len(sess.after)]
    /\ \A s \in DOMAIN sessions :
          (sessions[s].branch = "engagement" /\ ~Awaiting(s))
          => sessions[s].nreq = sessions[s].pagesFetched /\ sessions[s].nreq <= 5

C13_NoRequestAfterReturn ==
    /\ []C13_PagesSequentialBounded
    /\ [][\A s \in DOMAIN sessions :
             (~Awaiting(s) /\ s \in DOMAIN sessions')
             => sessions'[s].nreq <= sessions[s].nreq]_vars

\* three pages were requested, the third reported no further cursor, and
\* the session published the posts collected, fewer than 50
C13_Witness ==
    /\ EngagementSucceeded
    /\ sessions[abortControllerRef].pagesFetched = 3
    /\ requests = 3
    /\ sessions[abortControllerRef].answer.t = "listing"
    /\ sessions[abortControllerRef].answer.n > 0
    /\ Len(posts) > 0 /\ Len(posts) < 50

\* the current engagement session has settled after a page that was a
\* listing, with fewer than 50 qualifying posts delivered in all: it stopped
\* at the page limit, at a page without cursor, or at an empty page
EngagementStoppedShort ==
    /\ CurrentSettled
    /\ sessions[abortControllerRef].branch = "engagement"
    /\ sessions[abortControllerRef].answer.kind = "body"
    /\ sessions[abortControllerRef].answer.t = "listing"
    /\ Len(QualifyingDelivered) < 50

\* C14: an engagement accumulation that stops with fewer than 50 posts has
\* succeeded with the posts it collected; with none collected it is the empty
\* state without error: error null, posts empty, loading false.
C14_ShortAccumulationSucceeds ==
    EngagementStoppedShort =>
        /\ sessions[abortControllerRef].outcome = "succeeded"
        /\ error = Null
        /\ ~loading
        /\ posts = QualifyingDelivered

\* the page limit stopped the accumulation: the fifth page reported a further
\* cursor, and the five posts collected were published
C14_Witness ==
    /\ EngagementStoppedShort
    /\ sessions[abortControllerRef].pagesFetched = 5
    /\ sessions[abortControllerRef].answer.more
    /\ Len(posts) = 5

\* token tok occurs in url
Has(url, tok) == \E i \in 1..Len(url) : url[i] = tok

\* the value of the sort parameter of url, "" when it has none
SortParam(url) ==
    IF \E i \in 1..(Len(url) - 1) : url[i] = "&sort="
    THEN url[(CHOOSE i \in 1..(Len(url) - 1) : url[i] = "&sort=") + 1]
    ELSE ""

\* the request-construction rules in the order the claim gives them
RuleStated(q) ==
    IF q.activePostUrl # <<>> THEN "url"
    ELSE IF q.activeSearchQuery # <<>> THEN "search"
    ELSE IF q.sort = "videos" THEN "videos"
    ELSE IF q.sort = "engagement" THEN "engagement"
    ELSE "plain"

\* the same rules with the engagement aggregation ahead of the search
RuleAmended(q) ==
    IF q.activePostUrl # <<>> THEN "url"
    ELSE IF q.sort = "engagement" THEN "engagement"
    ELSE IF q.activeSearchQuery # <<>> THEN "search"
    ELSE IF q.sort = "videos" THEN "videos"
    ELSE "plain"

SearchEndpoint == "https://www.reddit.com/search.json"
SubredditEndpoint == "https://www.reddit.com/r/"

\* url is the request the rule prescribes for Query q
UrlFollowsRule(url, q, rule) ==
    CASE rule = "url" ->
            LET stem == SubSeq(url, 1, Len(url) - 3)
            IN  /\ Len(url) > 3
                /\ SubSeq(url, Len(url) - 2, Len(url)) = <<".json", "?", "raw_json=1">>
                /\ IsPrefix(stem, q.activePostUrl)
                /\ ~Has(stem, "?") /\ stem[Len(stem)] # "/"
                /\ (Len(stem) < Len(q.activePostUrl)
                      => q.activePostUrl[Len(stem) + 1] \in {"?", "/"})
      [] rule = "search" ->
            /\ Head(url) = SearchEndpoint
            /\ Has(url, "&limit=50") /\ ~Has(url, "&after=")
            /\ IF q.sort = "videos"
               THEN SortParam(url) = "relevance" /\ Has(url, "v.redd.it")
               ELSE SortParam(url) = q.sort /\ ~Has(url, "v.redd.it")
      [] rule = "videos" ->
            /\ SubSeq(url, 1, 1 + Len(q.subreddit)) = <<SubredditEndpoint>> \o q.subreddit
            /\ Has(url, "/search.json") /\ Has(url, "v.redd.it")
            /\ Has(url, "&restrict_sr=on") /\ SortParam(url) = "new"
      [] rule = "engagement" ->
            /\ Has(url, "&limit=100")
            /\ IF q.activeSearchQuery # <<>>
               THEN Head(url) = SearchEndpoint /\ SortParam(url) = "top"
               ELSE /\ SubSeq(url, 1, 1 + Len(q.subreddit))
                          = <<SubredditEndpoint>> \o q.subreddit
                    /\ Has(url, "top") /\ Has(url, "t=all")
      [] OTHER ->
            url = <<SubredditEndpoint>> \o q.subreddit
                    \o <<"/", q.sort, ".json", "?", "limit=50", "&raw_json=1">>

\* the sessions whose request is on record
Requesting == {s \in DOMAIN sessions : sessions[s].url # <<>>}

\* C15 as stated: the request of every session is the one prescribed by the
\* first matching rule in the order direct URL, free-text search, videos
\* within a subreddit, engagement, plain listing.
C15_RuleOrderAsStated ==
    \A s \in Requesting :
        UrlFollowsRule(sessions[s].url, sessions[s].q, RuleStated(sessions[s].q))

\* C15 amended: the request of every session is the one prescribed by the
\* first matching rule in the order direct URL, engagement (the paged top
\* listing of the search when a search is active, of the subreddit
\* otherwise), free-text search, videos within a subreddit, plain listing.
C15_RuleOrderAmended ==
    \A s \in Requesting :
        UrlFollowsRule(sessions[s].url, sessions[s].q, RuleAmended(sessions[s].q))

\* a search with sort engagement is being served, page two of the paged top
\* listing of the search is requested
C15_Witness ==
    \E s \in Requesting :
        /\ sessions[s].q.activeSearchQuery # <<>>
        /\ sessions[s].q.sort = "engagement"
        /\ sessions[s].pagesFetched = 2
        /\ SortParam(sessions[s].url) = "top"

\* the scores of ps never increase along the sequence
ScoreDescending(ps) ==
    \A i, j \in 1..Len(ps) : i < j => ps[i].score >= ps[j].score

\* C16: a session starts with the previous posts discarded; a listing or
\* search session that succeeded shows the posts in the order the response
\* delivered them; an engagement session that succeeded shows its posts
\* ordered by score, highest first.
C16_NewSequenceOrdered ==
    /\ (mounted /\ loading) => posts = <<>>
    /\ (CurrentSettled /\ sessions[abortControllerRef].branch = "standard"
          /\ sessions[abortControllerRef].outcome = "succeeded")
       => posts = sessions[abortControllerRef].delivered
    /\ EngagementSucceeded => ScoreDescending(posts)

\* the current session has succeeded and no posts are shown
SettledEmpty ==
    /\ CurrentSettled
    /\ sessions[abortControllerRef].outcome = "succeeded"
    /\ posts = <<>>

\* the kind of result a session's branch produces
ResultKind(sess) ==
    CASE sess.branch = "engagement" -> "engagement"
      [] sess.branch = "url" -> "url"
      [] sess.q.activeSearchQuery # <<>> -> "search"
      [] OTHER -> "browse"

\* the kind of empty result a displayed message speaks of
EmptyMessageKind(msg) ==
    CASE msg = <<>> -> "none"
      [] Head(msg) \in {"Could not find enough videos matching \"",
                        "Could not find enough videos in r/"} -> "engagement"
      [] Head(msg) = "No posts found for your search: \"" -> "search"
      [] Head(msg) = "Could not load the post from the provided URL." -> "url"
      [] Head(msg) = "No posts found in r/" -> "browse"
      [] OTHER -> "none"

\* C17: a session that settled with zero posts and no failure leaves the
\* non-error state (error null, loading false); what is rendered is the empty
\* view, never the error view, and its message is the one of the branch that
\* produced the empty result: engagement, search, URL lookup or plain browse.
C17_EmptyStateByBranch ==
    SettledEmpty =>
        /\ error = Null /\ ~loading
        /\ renderContent.view = "empty"
        /\ EmptyMessageKind(renderContent.message)
              = ResultKind(sessions[abortControllerRef])

\* an engagement accumulation within a search has settled with no posts
C17_Witness ==
    /\ SettledEmpty
    /\ sessions[abortControllerRef].branch = "engagement"
    /\ activeSearchQuery # <<>>
    /\ renderContent.view = "empty"

\* C23: an error and a non-empty post list are never displayed together;
\* while a session is loading both are clear; a current session that failed
\* has published no posts and one that succeeded has set no error.
C23_ErrorExcludesPosts ==
    mounted =>
        /\ ~(error # Null /\ posts # <<>>)
        /\ loading => (error = Null /\ posts = <<>>)
        /\ CurrentSettled =>
              /\ sessions[abortControllerRef].outcome = "failed" => posts = <<>>
              /\ sessions[abortControllerRef].outcome = "succeeded" => error = Null

\* an engagement session failed at its third page, after two pages with
\* qualifying posts: the error is shown and nothing was published
C23_Witness ==
    /\ CurrentSettled
    /\ sessions[abortControllerRef].branch = "engagement"
    /\ sessions[abortControllerRef].outcome = "failed"
    /\ sessions[abortControllerRef].pagesFetched = 3
    /\ error # Null /\ posts = <<>>

\* the session started last is suspended at an await
CurrentPending == abortControllerRef \in DOMAIN sessions /\ Awaiting(abortControllerRef)

\* C24: while the session started last is pending, loading is true; and the
\* return of a superseded session (one whose signal is aborted) leaves
\* loading as it was.
C24_SpinnerHeldByLatest ==
    /\ [](CurrentPending => loading)
    /\ [][\A s \in DOMAIN sessions :
             (sessions[s].aborted /\ Awaiting(s) /\ Steps(s)) => loading' = loading]_vars

\* a superseded engagement session has returned while its successor is
\* pending, and the spinner is still shown
C24_Witness ==
    /\ mounted /\ CurrentPending /\ loading
    /\ \E s \in DOMAIN sessions :
          /\ s # abortControllerRef
          /\ sessions[s].pc = "done" /\ sessions[s].aborted
          /\ sessions[s].branch = "engagement"

\* session s resumes from its await in this step: it moves on to its body
\* read or to a further request, or it returns
Resumes(s) ==
    /\ Awaiting(s)
    /\ \/ s \notin DOMAIN sessions'
       \/ sessions'[s].pc # sessions[s].pc
       \/ sessions'[s].nreq # sessions[s].nreq

\* C26: a step of a session leaves sort, search query and post URL as they
\* were, and changes the subreddit only when the session is a direct-URL
\* lookup that succeeds (its signal not aborted, its post document accepted);
\* handleSortChange changes nothing but the sort.
C26_OnlyUrlSuccessWritesQuery ==
    /\ [](\A newSort \in SORTS(CurrentQuery) :
            /\ handleSortChange(CurrentQuery, newSort).sort = newSort
            /\ handleSortChange(CurrentQuery, newSort).subreddit = subreddit
            /\ handleSortChange(CurrentQuery, newSort).activeSearchQuery = activeSearchQuery
            /\ handleSortChange(CurrentQuery, newSort).activePostUrl = activePostUrl)
    /\ [][\A s \in DOMAIN sessions :
             Resumes(s) =>
                /\ UNCHANGED <<sort, activeSearchQuery, activePostUrl>>
                /\ subreddit' # subreddit =>
                      /\ sessions[s].branch = "url"
                      /\ sessions[s].pc = "body"
                      /\ ~sessions[s].aborted
                      /\ subreddit' = UrlPost.subreddit]_vars

\* a direct-URL lookup succeeded and the subreddit of its post was adopted
\* beside the post URL
C26_Witness ==
    /\ activePostUrl = GoodUrl
    /\ subreddit = UrlPost.subreddit
    /\ sessions[abortControllerRef].startedBy = "setSubreddit"

\* the Query is a plain subreddit browse
PlainBrowse == activeSearchQuery = <<>> /\ activePostUrl = <<>>

\* C27: whenever the Query is a plain subreddit browse, the sort is one of
\* hot, new, top, engagement, videos, and never relevance or comments.
C27_BrowseSortValid ==
    PlainBrowse =>
        /\ sort \in {"hot", "new", "top", "engagement", "videos"}
        /\ sort \notin {"relevance", "comments"}

\* a subreddit was selected while a search sorted by relevance was being
\* served: the search session is superseded and the browse runs with hot
C27_Witness ==
    /\ PlainBrowse /\ subreddit = <<"aww">> /\ sort = "hot"
    /\ \E s \in DOMAIN sessions :
          /\ s # abortControllerRef
          /\ sessions[s].aborted
          /\ sessions[s].q.activeSearchQuery # <<>>
          /\ sessions[s].q.sort = "relevance"

\* a direct post URL is active and the controller has settled
UrlSettled == mounted /\ activePostUrl # <<>> /\ ~loading

\* C28: with a direct post URL active and loading false, either an error is
\* shown and no posts, or no error and exactly one post; the empty state of
\* the URL lookup (no error, no posts) is not reached.
C28_UrlSettlesErrorOrOnePost ==
    UrlSettled =>
        /\ \/ (error # Null /\ posts = <<>>)
           \/ (error = Null /\ Len(posts) = 1)
        /\ renderContent.view # "empty"

\* the lookup of a valid post URL has settled with its post shown
C28_Witness ==
    /\ UrlSettled /\ activePostUrl = GoodUrl
    /\ error = Null /\ posts = <<UrlPost>>
    /\ renderContent.view = "grid"

\* loading is false and what is shown is an error, or posts, or the empty
\* state
Settled == ~loading /\ ~(error # Null /\ posts # <<>>)

\* C25: when the user operations come to an end and every request is answered,
\* the mounted controller comes to rest with loading false, showing an error,
\* posts, or the empty state.
C25_EventuallySettles ==
    (<>[][~UserOperation]_vars) => <>[](~mounted \/ Settled)

\* the controller is at rest on the posts of a session that superseded an
\* engagement session in its second page
C25_Witness ==
    /\ mounted /\ Settled /\ posts # <<>>
    /\ \E s \in DOMAIN sessions :
          /\ s # abortControllerRef
          /\ sessions[s].branch = "engagement"
          /\ sessions[s].outcome = "cancelled"
          /\ sessions[s].pagesFetched = 2

-----------------------------------------------------------------------------
(* Properties of the proxy *)

\* the outcome of an upstream call that lets the loop go on to the next strategy
MovesOn(o) == o.kind = "error" \/ (o.kind = "status" /\ o.status = 403)

\* C18: the strategies are tried in order; a success is accepted and returned
\* with no further attempt; only a 403 or a transport error moves on to the
\* next strategy; any other failure status ends the loop and is returned.
C18_ShortCircuitRule ==
    proxy.handler = "endpoints" =>
        LET h == proxy.history
            n == Len(h)
        IN  /\ proxy.calls \in {n, n + 1}
            /\ \A i \in 1..n : proxy.calls > i => MovesOn(h[i])
            /\ (proxy.pc = "done" /\ n > 0 /\ h[n].kind = "status")
               => /\ Len(proxy.out) = 1
                  /\ proxy.out[1].status = h[n].status
                  /\ ResponseOk(h[n].status)
                     => (proxy.out[1].body.kind # "error" /\ proxy.out[1].body.id = n)

\* the request carried a url parameter that is a non-empty string
HasUrlString == proxy.target.type = "string" /\ proxy.target.value # <<>>

\* C19: GET /api/fetch answers once: without a url string, an error response
\* and no upstream call; when the upstream call completes, the upstream's
\* status and body unchanged, whatever the status; when it fails, status 500
\* with the JSON error {error, details}.
C19_FetchAnswersOnce ==
    proxy.handler \in {"server", "variant"} =>
        /\ Len(proxy.out) <= 1
        /\ proxy.pc = "done" =>
              /\ Len(proxy.out) = 1
              /\ IF ~HasUrlString
                 THEN /\ proxy.calls = 0
                      /\ proxy.out[1].status >= 400
                      /\ proxy.out[1].body.kind = "error"
                 ELSE /\ proxy.calls = 1
                      /\ IF proxy.read # ""
                         THEN proxy.out[1] =
                                Res(proxy.history[1].status, Text(proxy.read, 1))
                         ELSE /\ proxy.out[1].status = 500
                              /\ proxy.out[1].body.kind = "error"
                              /\ proxy.out[1].body.details

\* C20: a request makes a bounded number of upstream calls, and while it is
\* unanswered the proxy can still move: an upstream call that never completes
\* is ended by its timeout.
C20_NoAttemptStalls ==
    /\ proxy.calls <= Len(endpoints(proxy.target)) + 1
    /\ proxy.pc \in {"fetch", "body"} => ENABLED ProxyNext

\* the document the client's JSON.parse makes of a body the proxy sent: the
\* upstream's JSON is a listing, the proxy's own error JSON has no data
ProxiedDoc(body) ==
    CASE body.kind \in {"json", "json_spaced"} -> Doc("listing", ListingPosts, Null)
      [] body.kind = "error" -> Doc("nodata", <<>>, Null)
      [] OTHER -> Doc("notjson", <<>>, Null)

\* the listing branch of fetchPosts takes the response without throwing:
\* response.ok, the text parses, data?.data?.children is there  (App.tsx:185-205)
ValidatorAccepts(res) ==
    /\ ResponseOk(res.status)
    /\ ~BodyThrows("standard", ProxiedDoc(res.body))

\* every JSON strategy of the endpoints handler was tried and each was
\* answered 403 or failed in transport
AllStrategiesRefused ==
    /\ proxy.handler = "endpoints"
    /\ proxy.pc = "done"
    /\ Len(proxy.history) = Len(endpoints(proxy.target)) + 1
    /\ \A i \in 1..Len(proxy.history) : MovesOn(proxy.history[i])

\* C21: when every JSON strategy for a subreddit listing is refused (403 or
\* transport error), the proxy still answers with a success status and a JSON
\* body that the client's payload-shape validator accepts.
C21_FeedFallbackValidates ==
    AllStrategiesRefused =>
        /\ Len(proxy.out) = 1
        /\ ValidatorAccepts(proxy.out[1])

\* call i of the request was answered with a success status
Succeeded(i) ==
    /\ i \in 1..Len(proxy.history)
    /\ proxy.history[i].kind = "status" /\ ResponseOk(proxy.history[i].status)

\* C29: the endpoints handler makes at most four upstream calls: the three
\* endpoints in order with the headers, then the first endpoint without
\* headers only if no call succeeded; it answers 200 with the upstream's data
\* only after a call that succeeded; when no call succeeded it answers with
\* the failure status of the last call, or 500 when that call threw; it never
\* sends more than one response, and has sent one when it returns.
C29_EndpointsHandlerBounded ==
    proxy.handler = "endpoints" =>
        LET h == proxy.history
            n == Len(h)
            eps == endpoints(proxy.target)
        IN  /\ proxy.calls <= 4
            /\ proxy.pc = "fetch" =>
                  /\ proxy.calls = n + 1
                  /\ \A i \in 1..n : ~Succeeded(i)
                  /\ IF proxy.calls <= 3
                     THEN proxy.fetchUrl = eps[proxy.calls] /\ proxy.presetHeaders
                     ELSE proxy.fetchUrl = eps[1] /\ ~proxy.presetHeaders
            /\ Len(proxy.out) <= 1
            /\ proxy.pc = "done" =>
                  /\ Len(proxy.out) = 1
                  /\ proxy.out[1].status = 200 =>
                        /\ Succeeded(n)
                        /\ proxy.out[1].body = Text("json", n)
                  /\ (\A i \in 1..n : ~Succeeded(i)) =>
                        /\ n = 4
                        /\ proxy.out[1].status =
                              IF h[n].kind = "status" THEN h[n].status ELSE 500
                        /\ proxy.out[1].body.kind = "error"
                  /\ (\E i \in 1..n : Succeeded(i)) => proxy.out[1].status \in {200, 500}

\* the three endpoints were refused, the header-less call succeeded and its
\* data was sent with 200
C29_Witness ==
    /\ proxy.handler = "endpoints" /\ proxy.pc = "done"
    /\ proxy.calls = 4 /\ Succeeded(4)
    /\ ~proxy.presetHeaders
    /\ proxy.out = <<Res(200, Text("json", 4))>>

-----------------------------------------------------------------------------
(* Properties of the AI-assisted modals *)

\* the content the feature of call c shows
ContentOf(c) ==
    CASE c = "analyze" -> modal.analysis
      [] c = "generate" -> modal.aiContent
      [] OTHER -> modal.seoContent

\* C22: in an open modal, a feature whose AI call has failed has content to
\* show (a result synthesized locally), and loading is cleared unless a later
\* call is under way: copyright analysis, YouTube details and SEO kit alike.
C22_AiFailureLeavesDefault ==
    modal.mounted =>
        \A c \in AiCalls :
            modal.outcome[c] = "failed" =>
                /\ ContentOf(c) # <<>>
                /\ modal.call = "" => ~modal.isLoading

ViewRank(v) ==
    CASE v = "analyze" -> 1 [] v = "generate" -> 2 [] v = "instruct" -> 3 [] OTHER -> 0

\* C30: the view of the YouTube modal moves analyze -> generate -> instruct
\* and never back; the generate view is entered only from the analyze view
\* with the analysis present and not loading; onConfirm fires only in the
\* generate view with the details present and not loading.
C30_ViewOnlyForward ==
    [][modal.kind = "youtube" =>
          /\ ViewRank(modal'.view) >= ViewRank(modal.view)
          /\ ViewRank(modal'.view) <= ViewRank(modal.view) + 1
          /\ (modal'.view = "generate" /\ modal.view # "generate")
             => (modal.view = "analyze" /\ ~modal.isLoading /\ modal.analysis # <<>>)
          /\ modal'.confirmed # modal.confirmed
             => /\ modal'.confirmed = modal.confirmed + 1
                /\ modal.view = "generate" /\ modal'.view = "instruct"
                /\ ~modal.isLoading /\ modal.aiContent # <<>>]_vars

\* the user went through the three views: both AI calls failed, the defaults
\* were accepted and the download was confirmed once
C30_Witness ==
    /\ modal.kind = "youtube" /\ modal.mounted
    /\ modal.view = "instruct" /\ modal.confirmed = 1
    /\ modal.outcome["analyze"] = "failed" /\ modal.outcome["generate"] = "failed"

====
